---- MODULE Spec2Model ----
(***************************************************************************)
(* Model of consensus/consensus_processor.py: the ConsensusProcessor that  *)
(* ingests annotation records (consider) and extracts consensus rows       *)
(* (get_consensus, get_answer_consensus), with its ArticleData, TopicData  *)
(* and ContribData parts.  A Python method is an operator from the object  *)
(* (and its arguments) to a record holding the object after the call       *)
(* ("self"), the exception it raised ("raised", NoException when it         *)
(* returned) and what it returned.                                         *)
(***************************************************************************)
EXTENDS Integers, Sequences, FiniteSets, TLC

\* ------------------------------------------------------------------ bounds
\* Character offsets of the article are 0 .. MaxPos-1.
MaxPos == 3
\* Annotations handed to consider() in one run.
MaxAnnos == 2
\* Integers handed to convert_to_ranges on its own are -1 .. MaxIndex-2.
MaxIndex == 7

\* --------------------------------------------------------- program constants
MIN_REDUNDANCY == 3
PASS_THRESHOLD == 2

\* Python's None, and the value of "raised" when a call returns.
None == "None"
NoException == "NoException"

\* ------------------------------------------------------------ input domains
Contributors == {"u1", "u2"}
\* The empty topic name is the falsy value TopicData.__init__ starts from.
TopicNames == {"", "T1"}
TaskUuid == "task1"

\* iaa_config is a dict: a function from the option names it holds.
EmptyConfig == [k \in {} |-> 0]
IaaConfigs ==
    { EmptyConfig,
      [k \in {"pass_threshold", "minimum_redundancy"} |->
          IF k = "pass_threshold" THEN 1 ELSE 2] }

\* dict.get(key, default)
DictGet(d, key, default) == IF key \in DOMAIN d THEN d[key] ELSE default

Min(a, b) == IF a <= b THEN a ELSE b

\* ----------------------------------------------------------- text transport
\* target_text is an escaped byte string, here a sequence of escape tokens;
\* str.decode('unicode-escape') maps each token to the character it denotes
\* ("\x61" is another spelling of "a"), unicode.encode('unicode-escape')
\* writes each character in its canonical spelling.
DecodeToken(tok) == IF tok = "\\x61" THEN "a" ELSE tok
Decode(text) == [i \in 1..Len(text) |-> DecodeToken(text[i])]
Encode(chars) == [i \in 1..Len(chars) |-> chars[i]]

\* The article the annotations were cut from, and a second edition of it that
\* differs at every offset.
ArticleChar(p) == IF p % 2 = 0 THEN "a" ELSE "b"
OtherChar(p) == IF p % 2 = 0 THEN "b" ELSE "a"

\* How an annotation record departs from the well-formed one.
Deviations ==
    { "none", "low_redundancy", "short_text", "other_char", "hex_escape",
      "other_sha", "other_filename", "other_namespace", "other_case" }

TextOf(s, e, dev) ==
    LET n == IF e > s THEN e - s ELSE 0
        len == IF dev = "short_text" /\ n > 0 THEN n - 1 ELSE n
    IN [i \in 1..len |->
          CASE dev = "other_char" -> OtherChar(s + i - 1)
            [] dev = "hex_escape" /\ ArticleChar(s + i - 1) = "a" -> "\\x61"
            [] OTHER -> ArticleChar(s + i - 1)]

Anno(u, t, s, e, dev) ==
    [ start_pos        |-> s,
      end_pos          |-> e,
      target_text      |-> TextOf(s, e, dev),
      article_sha256   |-> IF dev = "other_sha" THEN "sha2" ELSE "sha1",
      article_filename |-> IF dev = "other_filename" THEN "f2" ELSE "f1",
      contributor_uuid |-> u,
      topic_name       |-> t,
      namespace        |-> IF dev = "other_namespace" THEN "ns2" ELSE "ns1",
      case_number      |-> IF dev = "other_case" THEN 2 ELSE 1,
      taskrun_count    |-> IF dev = "low_redundancy"
                             THEN MIN_REDUNDANCY - 1 ELSE MIN_REDUNDANCY ]

\* The half-open ranges [start_pos, end_pos) of the article, and an empty one.
Ranges ==
    { r \in (0..MaxPos) \X (0..MaxPos) : r[1] < r[2] } \cup { << 0, 0 >> }

\* Whether a departure is drawn for a range: one of the text or of the case
\* number needs a highlight, one of the article's identity is drawn on the
\* annotation without highlight.
Applies(dev, r) ==
    CASE dev \in {"short_text", "other_char", "hex_escape", "other_case"} ->
            r[1] < r[2]
      [] dev \in {"other_sha", "other_filename"} -> r[1] = r[2]
      [] OTHER -> TRUE

\* The annotation records consider() is fed: every contributor, topic and
\* range of the article, well-formed or departing in one field.
Annotations ==
    { Anno(c[1], c[2], c[3][1], c[3][2], c[4]) :
        c \in { d \in Contributors \X TopicNames \X Ranges \X Deviations :
                  Applies(d[4], d[3]) } }

\* --------------------------------------------------------------- ArticleData
ArticleData_init ==
    [ article_sha256 |-> None, article_filename |-> None,
      char_dict |-> [k \in {} |-> ""] ]

\* range(start, stop) as the set of its elements.
PyRange(start, stop) == { x \in start..(stop - 1) : TRUE }

\* dict(zip(anno_range, target_text)): zip stops at the shorter of the two.
ZipDict(start, stop, text) ==
    LET n == Min(Cardinality(PyRange(start, stop)), Len(text))
    IN [p \in start..(start + n - 1) |-> text[p - start + 1]]

\* dict.update(other): the keys of other take other's values.
DictUpdate(d, other) == other @@ d

\* ArticleData_consider keeping only the last annotation's characters.
ArticleData_consider_replaces(self, anno) ==
    LET target_text == Decode(anno.target_text)
        anno_map == ZipDict(anno.start_pos, anno.end_pos, target_text)
        intersection == DOMAIN self.char_dict \cap DOMAIN anno_map
        merged == [self EXCEPT !.char_dict = anno_map]
    IN IF \E k \in intersection : self.char_dict[k] # anno_map[k]
         THEN [raised |-> "AssertionError", self |-> self]
       ELSE IF self.article_sha256 = None
         THEN [raised |-> NoException,
               self |-> [merged EXCEPT
                           !.article_sha256 = anno.article_sha256,
                           !.article_filename = anno.article_filename]]
       ELSE IF self.article_sha256 # anno.article_sha256
         THEN [raised |-> "AssertionError", self |-> merged]
       ELSE IF self.article_filename # anno.article_filename
         THEN [raised |-> "AssertionError", self |-> merged]
       ELSE [raised |-> NoException, self |-> merged]

ArticleData_consider(self, anno) ==
    LET target_text == Decode(anno.target_text)
        anno_map == ZipDict(anno.start_pos, anno.end_pos, target_text)
        intersection == DOMAIN self.char_dict \cap DOMAIN anno_map
        merged == [self EXCEPT !.char_dict = DictUpdate(self.char_dict, anno_map)]
    IN IF \E k \in intersection : self.char_dict[k] # anno_map[k]
         THEN [raised |-> "AssertionError", self |-> self]
       ELSE IF self.article_sha256 = None
         THEN [raised |-> NoException,
               self |-> [merged EXCEPT
                           !.article_sha256 = anno.article_sha256,
                           !.article_filename = anno.article_filename]]
       ELSE IF self.article_sha256 # anno.article_sha256
         THEN [raised |-> "AssertionError", self |-> merged]
       ELSE IF self.article_filename # anno.article_filename
         THEN [raised |-> "AssertionError", self |-> merged]
       ELSE [raised |-> NoException, self |-> merged]

ArticleData_get(self, char_index) ==
    IF char_index \in DOMAIN self.char_dict
      THEN [raised |-> NoException, value |-> self.char_dict[char_index]]
      ELSE [raised |-> "KeyError", value |-> None]

ArticleData_set_article_cols(self, row) ==
    [ start_pos        |-> row.start_pos,
      end_pos          |-> row.end_pos,
      target_text      |-> row.target_text,
      topic_name       |-> row.topic_name,
      namespace        |-> row.namespace,
      case_number      |-> row.case_number,
      article_sha256   |-> self.article_sha256,
      article_filename |-> self.article_filename ]

\* --------------------------------------------------------------- ContribData
ContribData_init ==
    [ flattened |-> {}, case_number_dict |-> [k \in {} |-> 0] ]

\* ContribData_consider with the new range assigned to flattened, not united.
ContribData_consider_assigns(self, anno) ==
    LET anno_set == PyRange(anno.start_pos, anno.end_pos)
        case_number_keys == DOMAIN self.case_number_dict
        new_keys == anno_set \ case_number_keys
        overlapped_keys == case_number_keys \cap anno_set
        proposed == anno.case_number
        new_dict == [k \in new_keys |-> proposed]
        overlapped_dict ==
            [k \in overlapped_keys |-> Min(self.case_number_dict[k], proposed)]
    IN [ flattened |-> anno_set,
         case_number_dict |->
            DictUpdate(DictUpdate(self.case_number_dict, new_dict),
                       overlapped_dict) ]

ContribData_consider(self, anno) ==
    LET anno_set == PyRange(anno.start_pos, anno.end_pos)
        case_number_keys == DOMAIN self.case_number_dict
        new_keys == anno_set \ case_number_keys
        overlapped_keys == case_number_keys \cap anno_set
        proposed == anno.case_number
        new_dict == [k \in new_keys |-> proposed]
        overlapped_dict ==
            [k \in overlapped_keys |-> Min(self.case_number_dict[k], proposed)]
    IN [ flattened |-> self.flattened \cup anno_set,
         case_number_dict |->
            DictUpdate(DictUpdate(self.case_number_dict, new_dict),
                       overlapped_dict) ]

\* ----------------------------------------------------------------- TopicData
TopicData_init ==
    [ topic_name |-> "", namespace |-> "",
      contrib_dict |-> [u \in {} |-> ContribData_init] ]

\* defaultdict.__getitem__: a missing key is created with the default.
DefaultGet(d, key, default) == IF key \in DOMAIN d THEN d[key] ELSE default

TopicData_consider(self, anno) ==
    LET contrib_uuid == anno.contributor_uuid
        contrib_data == DefaultGet(self.contrib_dict, contrib_uuid, ContribData_init)
        updated ==
            [self EXCEPT !.contrib_dict =
                DictUpdate(self.contrib_dict,
                           contrib_uuid :> ContribData_consider(contrib_data, anno))]
    IN IF updated.topic_name = ""
         THEN [raised |-> NoException,
               self |-> [updated EXCEPT !.topic_name = anno.topic_name,
                                           !.namespace = anno.namespace]]
       ELSE IF updated.topic_name # anno.topic_name
         THEN [raised |-> "AssertionError", self |-> updated]
       ELSE IF updated.namespace # anno.namespace
         THEN [raised |-> "AssertionError", self |-> updated]
       ELSE [raised |-> NoException, self |-> updated]


\* collections.Counter over positions: a function from the positions counted
\* at least once.  Counter(iterable of distinct items) counts each once;
\* a += b keeps the keys whose sum is positive.
CounterOf(items) == [p \in items |-> 1]
CounterAdd(a, b) ==
    LET total(p) == DictGet(a, p, 0) + DictGet(b, p, 0)
    IN [p \in { q \in DOMAIN a \cup DOMAIN b : total(q) > 0 } |-> total(p)]

RECURSIVE SumOver(_, _, _)
\* The loop of sum_contribs over the contributors not yet visited.
SumOver(contrib_dict, todo, topic_counter) ==
    IF todo = {} THEN topic_counter
    ELSE LET contrib_uuid == CHOOSE u \in todo : TRUE
             contrib_data == contrib_dict[contrib_uuid]
         IN SumOver(contrib_dict, todo \ {contrib_uuid},
                    CounterAdd(topic_counter, CounterOf(contrib_data.flattened)))

TopicData_sum_contribs(self) ==
    SumOver(self.contrib_dict, DOMAIN self.contrib_dict, CounterOf({}))

RECURSIVE Sorted(_)
\* sorted(positions), as a sequence.
Sorted(S) ==
    IF S = {} THEN << >>
    ELSE LET m == CHOOSE x \in S : \A y \in S : x <= y
         IN << m >> \o Sorted(S \ {m})

Offset(start, end) == [start_pos |-> start, end_pos |-> end]

RECURSIVE RangesLoopSplitsAlways(_, _, _, _, _)
\* RangesLoop with the test for a gap comparing the two positions themselves.
RangesLoopSplitsAlways(indices, i, start, end, offsets) ==
    IF i > Len(indices) THEN Append(offsets, Offset(start, end))
    ELSE LET pos == indices[i]
         IN IF i > 1 /\ indices[i - 1] # pos
              THEN RangesLoopSplitsAlways(indices, i + 1, pos, pos + 1,
                                          Append(offsets, Offset(start, end)))
              ELSE RangesLoopSplitsAlways(indices, i + 1, start, pos + 1, offsets)

RECURSIVE RangesLoop(_, _, _, _, _)
\* The for loop of convert_to_ranges at index i (1-based here) of indices.
RangesLoop(indices, i, start, end, offsets) ==
    IF i > Len(indices) THEN Append(offsets, Offset(start, end))
    ELSE LET pos == indices[i]
         IN IF i > 1 /\ indices[i - 1] + 1 # pos
              THEN RangesLoop(indices, i + 1, pos, pos + 1,
                              Append(offsets, Offset(start, end)))
              ELSE RangesLoop(indices, i + 1, start, pos + 1, offsets)

TopicData_convert_to_ranges(positions) ==
    IF Cardinality(positions) # 0
      THEN LET indices == Sorted(positions)
           IN RangesLoop(indices, 1, indices[1], indices[1] + 1, << >>)
      ELSE << >>

\* determine_cases numbering a range with the lowest case number a contributor
\* proposed at its start.
TopicData_determine_cases_proposed(self, offsets) ==
    [ seq \in 1..Len(offsets) |->
        LET proposals ==
                { self.contrib_dict[u].case_number_dict[offsets[seq].start_pos] :
                    u \in { v \in DOMAIN self.contrib_dict :
                              offsets[seq].start_pos \in
                                  DOMAIN self.contrib_dict[v].case_number_dict } }
        IN [ start_pos   |-> offsets[seq].start_pos,
             end_pos     |-> offsets[seq].end_pos,
             target_text |-> offsets[seq].target_text,
             topic_name  |-> self.topic_name,
             namespace   |-> self.namespace,
             case_number |->
                 IF proposals = {} THEN seq
                 ELSE CHOOSE c \in proposals : \A d \in proposals : c <= d ] ]

\* rows of determine_cases; offsets carry target_text by then.
TopicData_determine_cases(self, offsets) ==
    [ seq \in 1..Len(offsets) |->
        [ start_pos   |-> offsets[seq].start_pos,
          end_pos     |-> offsets[seq].end_pos,
          target_text |-> offsets[seq].target_text,
          topic_name  |-> self.topic_name,
          namespace   |-> self.namespace,
          case_number |-> seq ] ]

\* The closure determine_passing of get_consensus and get_answer_consensus,
\* with the pass_threshold it captures.
determine_passing(index_comma_total, pass_threshold) ==
    index_comma_total[2] >= pass_threshold

TopicData_get_consensus(self, pass_threshold) ==
    LET topic_counter == TopicData_sum_contribs(self)
        passing_indices ==
            { p \in DOMAIN topic_counter :
                determine_passing(<< p, topic_counter[p] >>, pass_threshold) }
    IN TopicData_convert_to_ranges(passing_indices)

TopicData_get_contrib_count(self) == Cardinality(DOMAIN self.contrib_dict)

\* -------------------------------------------------------- ConsensusProcessor
\* self.topics is a defaultdict: its items, and the order iteritems() yields
\* the keys in.  Python 2 leaves that order arbitrary and dependent on the
\* history of insertions: a key is created at the place `slot` of the order.
InsertAt(order, slot, key) ==
    SubSeq(order, 1, slot - 1) \o << key >> \o SubSeq(order, slot, Len(order))

ConsensusProcessor_init(task_uuid, iaa_config) ==
    [ task_uuid    |-> task_uuid,
      iaa_config   |-> iaa_config,
      article_data |-> ArticleData_init,
      topics       |-> [t \in {} |-> TopicData_init],
      topic_order  |-> << >> ]

RECURSIVE ConsiderLoop_filters_late(_, _, _, _)
\* ConsiderLoop with the redundancy filter after article_data.consider.
ConsiderLoop_filters_late(self, task_highlights, slots, i) ==
    IF i > Len(task_highlights) THEN [raised |-> NoException, self |-> self]
    ELSE
      LET minimum_redundancy ==
              DictGet(self.iaa_config, "minimum_redundancy", MIN_REDUNDANCY)
          anno == task_highlights[i]
          article == ArticleData_consider(self.article_data, anno)
          with_article == [self EXCEPT !.article_data = article.self]
      IN IF article.raised # NoException
           THEN [raised |-> article.raised, self |-> with_article]
         ELSE IF anno.taskrun_count < minimum_redundancy
           THEN ConsiderLoop_filters_late(with_article, task_highlights, slots,
                                          i + 1)
         ELSE
           LET topic_name == anno.topic_name
               created == topic_name \notin DOMAIN self.topics
               topic_data == DefaultGet(self.topics, topic_name, TopicData_init)
               topic == TopicData_consider(topic_data, anno)
               with_topic ==
                   [with_article EXCEPT
                      !.topics = DictUpdate(self.topics, topic_name :> topic.self),
                      !.topic_order =
                          IF created
                            THEN InsertAt(self.topic_order, slots[i], topic_name)
                            ELSE self.topic_order]
           IN IF topic.raised # NoException
                THEN [raised |-> topic.raised, self |-> with_topic]
                ELSE ConsiderLoop_filters_late(with_topic, task_highlights,
                                               slots, i + 1)

RECURSIVE ConsiderLoop(_, _, _, _)
\* The for loop of consider at index i of task_highlights; slots[i] is the
\* place a topic created by the i-th annotation takes in the iteration order.
ConsiderLoop(self, task_highlights, slots, i) ==
    IF i > Len(task_highlights) THEN [raised |-> NoException, self |-> self]
    ELSE
      LET minimum_redundancy ==
              DictGet(self.iaa_config, "minimum_redundancy", MIN_REDUNDANCY)
          anno == task_highlights[i]
      IN IF anno.taskrun_count < minimum_redundancy
           THEN ConsiderLoop(self, task_highlights, slots, i + 1)
         ELSE
           LET article == ArticleData_consider(self.article_data, anno)
               with_article == [self EXCEPT !.article_data = article.self]
           IN IF article.raised # NoException
                THEN [raised |-> article.raised, self |-> with_article]
              ELSE
                LET topic_name == anno.topic_name
                    created == topic_name \notin DOMAIN self.topics
                    topic_data ==
                        DefaultGet(self.topics, topic_name, TopicData_init)
                    topic == TopicData_consider(topic_data, anno)
                    with_topic ==
                        [with_article EXCEPT
                           !.topics = DictUpdate(self.topics,
                                                 topic_name :> topic.self),
                           !.topic_order =
                               IF created
                                 THEN InsertAt(self.topic_order, slots[i],
                                               topic_name)
                                 ELSE self.topic_order]
                IN IF topic.raised # NoException
                     THEN [raised |-> topic.raised, self |-> with_topic]
                     ELSE ConsiderLoop(with_topic, task_highlights, slots, i + 1)

ConsensusProcessor_consider(self, task_highlights, slots) ==
    ConsiderLoop(self, task_highlights, slots, 1)

RECURSIVE SetTextLoop_pops(_, _, _, _)
\* SetTextLoop taking each character out of char_dict as it reads it.
SetTextLoop_pops(self, offsets, i, done) ==
    IF i > Len(offsets)
      THEN [raised |-> NoException, self |-> self, offsets |-> done]
    ELSE
      LET start == offsets[i].start_pos
          end == offsets[i].end_pos
          got == [x \in PyRange(start, end) |->
                    ArticleData_get(self.article_data, x)]
          kept == DOMAIN self.article_data.char_dict \ PyRange(start, end)
          popped ==
              [self EXCEPT !.article_data.char_dict =
                  [x \in kept |-> self.article_data.char_dict[x]]]
      IN IF \E x \in PyRange(start, end) : got[x].raised # NoException
           THEN [raised |-> "KeyError", self |-> self, offsets |-> done]
           ELSE
             LET chars == [k \in 1..(end - start) |-> got[start + k - 1].value]
             IN SetTextLoop_pops(popped, offsets, i + 1,
                    Append(done, [start_pos   |-> start,
                                  end_pos     |-> end,
                                  target_text |-> Encode(chars)]))

RECURSIVE SetTextLoop(_, _, _, _)
\* The for loop of set_text at index i of offsets; done holds the offsets
\* already given their target_text.
SetTextLoop(self, offsets, i, done) ==
    IF i > Len(offsets)
      THEN [raised |-> NoException, self |-> self, offsets |-> done]
    ELSE
      LET start == offsets[i].start_pos
          end == offsets[i].end_pos
          got == [x \in PyRange(start, end) |->
                    ArticleData_get(self.article_data, x)]
      IN IF \E x \in PyRange(start, end) : got[x].raised # NoException
           THEN [raised |-> "KeyError", self |-> self, offsets |-> done]
           ELSE
             LET chars == [k \in 1..(end - start) |-> got[start + k - 1].value]
             IN SetTextLoop(self, offsets, i + 1,
                    Append(done, [start_pos   |-> start,
                                  end_pos     |-> end,
                                  target_text |-> Encode(chars)]))

ConsensusProcessor_set_text(self, offsets) ==
    SetTextLoop(self, offsets, 1, << >>)

ConsensusProcessor_set_links(self, rows) ==
    [ k \in 1..Len(rows) |->
        LET row == ArticleData_set_article_cols(self.article_data, rows[k])
        IN [ start_pos        |-> row.start_pos,
             end_pos          |-> row.end_pos,
             target_text      |-> row.target_text,
             topic_name       |-> row.topic_name,
             namespace        |-> row.namespace,
             case_number      |-> row.case_number,
             article_sha256   |-> row.article_sha256,
             article_filename |-> row.article_filename,
             task_uuid        |-> self.task_uuid ] ]

RECURSIVE GetConsensusLoop(_, _, _)
\* The for loop of get_consensus at index i of the topics' iteration order.
GetConsensusLoop(self, i, consensus_rows) ==
    IF i > Len(self.topic_order)
      THEN [raised |-> NoException, self |-> self, rows |-> consensus_rows]
    ELSE
      LET topic_data == self.topics[self.topic_order[i]]
          pass_threshold ==
              DictGet(self.iaa_config, "pass_threshold", PASS_THRESHOLD)
          offsets == TopicData_get_consensus(topic_data, pass_threshold)
          text == ConsensusProcessor_set_text(self, offsets)
      IN IF text.raised # NoException
           THEN [raised |-> text.raised, self |-> text.self, rows |-> << >>]
           ELSE
             LET rows == TopicData_determine_cases(topic_data, text.offsets)
                 linked == ConsensusProcessor_set_links(text.self, rows)
             IN GetConsensusLoop(text.self, i + 1, consensus_rows \o linked)

ConsensusProcessor_get_consensus(self) == GetConsensusLoop(self, 1, << >>)

\* row['extra'] = {'contrib_count': contrib_count}
WithExtra(row, contrib_count) ==
    [ start_pos        |-> row.start_pos,
      end_pos          |-> row.end_pos,
      target_text      |-> row.target_text,
      topic_name       |-> row.topic_name,
      namespace        |-> row.namespace,
      case_number      |-> row.case_number,
      article_sha256   |-> row.article_sha256,
      article_filename |-> row.article_filename,
      task_uuid        |-> row.task_uuid,
      extra            |-> [contrib_count |-> contrib_count] ]

RECURSIVE GetAnswerConsensusLoop_strict(_, _, _)
\* GetAnswerConsensusLoop asking for more contributors than pass_threshold.
GetAnswerConsensusLoop_strict(self, i, consensus_rows) ==
    IF i > Len(self.topic_order)
      THEN [raised |-> NoException, self |-> self, rows |-> consensus_rows]
    ELSE
      LET topic_data == self.topics[self.topic_order[i]]
          pass_threshold ==
              DictGet(self.iaa_config, "pass_threshold", PASS_THRESHOLD)
          passing == TopicData_get_consensus(topic_data, pass_threshold)
          contrib_count == TopicData_get_contrib_count(topic_data)
          offsets ==
              IF Len(passing) = 0 /\ contrib_count > pass_threshold
                THEN << Offset(0, 0) >>
                ELSE passing
          text == ConsensusProcessor_set_text(self, offsets)
      IN IF text.raised # NoException
           THEN [raised |-> text.raised, self |-> text.self, rows |-> << >>]
           ELSE
             LET rows == TopicData_determine_cases(topic_data, text.offsets)
                 linked == ConsensusProcessor_set_links(text.self, rows)
                 extra == [k \in 1..Len(linked) |->
                             WithExtra(linked[k], contrib_count)]
             IN GetAnswerConsensusLoop_strict(text.self, i + 1,
                                              consensus_rows \o extra)

RECURSIVE GetAnswerConsensusLoop(_, _, _)
\* The for loop of get_answer_consensus at index i of the iteration order.
GetAnswerConsensusLoop(self, i, consensus_rows) ==
    IF i > Len(self.topic_order)
      THEN [raised |-> NoException, self |-> self, rows |-> consensus_rows]
    ELSE
      LET topic_data == self.topics[self.topic_order[i]]
          pass_threshold ==
              DictGet(self.iaa_config, "pass_threshold", PASS_THRESHOLD)
          passing == TopicData_get_consensus(topic_data, pass_threshold)
          contrib_count == TopicData_get_contrib_count(topic_data)
          offsets ==
              IF Len(passing) = 0 /\ contrib_count >= pass_threshold
                THEN << Offset(0, 0) >>
                ELSE passing
          text == ConsensusProcessor_set_text(self, offsets)
      IN IF text.raised # NoException
           THEN [raised |-> text.raised, self |-> text.self, rows |-> << >>]
           ELSE
             LET rows == TopicData_determine_cases(topic_data, text.offsets)
                 linked == ConsensusProcessor_set_links(text.self, rows)
                 extra == [k \in 1..Len(linked) |->
                             WithExtra(linked[k], contrib_count)]
             IN GetAnswerConsensusLoop(text.self, i + 1, consensus_rows \o extra)

ConsensusProcessor_get_answer_consensus(self) ==
    GetAnswerConsensusLoop(self, 1, << >>)


\* ---------------------------------------------------------------- the state
VARIABLES
    processor,   \* the ConsensusProcessor object
    dict_layout, \* where the runtime's dict placed each created topic key
    considered,  \* annotations handed to consider() so far
    accepted,    \* history: the annotations consider() took in and returned from
    failed,      \* history: some consider() call raised
    conflicted,  \* history: an accepted annotation contradicted a recorded character
    outcome,     \* how the last consider() call ended
    returned,    \* what the extraction calls since the last consider() returned
    shadow,      \* a second processor, fed the same annotations in another order
    pending,     \* the annotations the first processor has and the second not yet
    permuted,    \* history: the second processor took two annotations out of order
    seen,        \* history: what the accepted annotations said of the article
    positions,   \* convert_to_ranges on its own: its argument
    ranges       \* convert_to_ranges on its own: its result

vars ==
    << processor, dict_layout, considered, accepted, failed, conflicted, outcome,
       returned, shadow, pending, permuted, seen, positions, ranges >>

\* The record of a call: whether it was made, what it raised, what it returned.
NotCalled == [called |-> FALSE, raised |-> NoException, rows |-> << >>]
NothingReturned == [get_consensus |-> NotCalled, get_answer_consensus |-> NotCalled]
NotConverted == [called |-> FALSE, offsets |-> << >>]

\* What the history keeps of an annotation.
Submission(anno) ==
    [ topic_name       |-> anno.topic_name,
      contributor_uuid |-> anno.contributor_uuid,
      namespace        |-> anno.namespace,
      start_pos        |-> anno.start_pos,
      end_pos          |-> anno.end_pos ]

\* The redundancy filter's verdict on an annotation, from the configuration.
BelowRedundancy(anno) ==
    anno.taskrun_count <
        DictGet(processor.iaa_config, "minimum_redundancy", MIN_REDUNDANCY)

\* What an annotation says of the article: the character at each offset its
\* text reaches, the article's identity, its topic's namespace.
AnnoChars(anno) ==
    LET text == Decode(anno.target_text)
        n == Min(Cardinality(PyRange(anno.start_pos, anno.end_pos)), Len(text))
    IN { << anno.start_pos + k - 1, text[k] >> : k \in 1..n }

Said(anno) ==
    [ chars      |-> AnnoChars(anno),
      articles   |-> { << anno.article_sha256, anno.article_filename >> },
      namespaces |-> { << anno.topic_name, anno.namespace >> } ]

Join(a, b) ==
    [ chars      |-> a.chars \cup b.chars,
      articles   |-> a.articles \cup b.articles,
      namespaces |-> a.namespaces \cup b.namespaces ]

Functional(pairs) == \A x \in pairs, y \in pairs : x[1] = y[1] => x[2] = y[2]

\* A consistent batch: one character per offset, one article, one namespace
\* per topic.
Consistent(said) ==
    /\ Functional(said.chars)
    /\ Cardinality(said.articles) <= 1
    /\ Functional(said.namespaces)

\* The places the runtime may give the key an annotation creates in the
\* iteration order of self.topics: any, but the same one whenever the same key
\* joins the same dict.
Slots(self, anno) ==
    LET at == << self.topic_order, anno.topic_name >>
    IN IF at \in DOMAIN dict_layout THEN {dict_layout[at]}
       ELSE 1..(Len(self.topic_order) + 1)

Placed(before, after, anno, slot) ==
    LET at == << before.topic_order, anno.topic_name >>
    IN IF anno.topic_name \in DOMAIN after.topics \ DOMAIN before.topics
         THEN (at :> slot) @@ dict_layout
         ELSE dict_layout

Init ==
    /\ \E iaa_config \in IaaConfigs :
          /\ processor = ConsensusProcessor_init(TaskUuid, iaa_config)
          /\ shadow = ConsensusProcessor_init(TaskUuid, iaa_config)
    /\ dict_layout = [at \in {} |-> 0]
    /\ considered = 0
    /\ accepted = {}
    /\ failed = FALSE
    /\ conflicted = FALSE
    /\ outcome = "init"
    /\ returned = NothingReturned
    /\ pending = {}
    /\ permuted = FALSE
    /\ seen = [chars |-> {}, articles |-> {}, namespaces |-> {}]
    /\ positions = {}
    /\ ranges = NotConverted

\* consider([anno]) on the processor: one annotation through the loop of
\* consider.  A longer batch is this step repeated until one raises.  The
\* step forgets the rows returned before it, so it leads to the same states
\* whether or not rows were extracted; it is taken before any are.
ConsiderAnno(anno, slot) ==
    LET call == ConsensusProcessor_consider(processor, << anno >>, << slot >>)
        took == call.raised = NoException /\ ~BelowRedundancy(anno)
    IN /\ processor' = call.self
       /\ dict_layout' = Placed(processor, call.self, anno, slot)
       /\ accepted' = IF took THEN accepted \cup {Submission(anno)} ELSE accepted
       /\ seen' = IF took THEN Join(seen, Said(anno)) ELSE seen
       /\ failed' = (failed \/ call.raised # NoException)
       /\ conflicted' =
             (conflicted \/ (~BelowRedundancy(anno) /\
                             ~Functional(seen.chars \cup AnnoChars(anno))))
       /\ outcome' = IF call.raised # NoException THEN call.raised
                     ELSE IF BelowRedundancy(anno) THEN "dropped"
                     ELSE "ingested"
       /\ considered' = considered + 1
       /\ returned' = NothingReturned

Consider ==
    /\ considered < MaxAnnos
    /\ returned = NothingReturned
    /\ \E anno \in Annotations : \E slot \in Slots(processor, anno) :
          ConsiderAnno(anno, slot)
    /\ UNCHANGED << shadow, pending, permuted, positions, ranges >>

GetConsensus ==
    LET call == ConsensusProcessor_get_consensus(processor)
    IN /\ processor' = call.self
       /\ returned' = [returned EXCEPT !.get_consensus =
                          [called |-> TRUE, raised |-> call.raised,
                           rows |-> call.rows]]
       /\ UNCHANGED << dict_layout, considered, accepted, failed, conflicted,
                       outcome, shadow, pending, permuted, seen, positions,
                       ranges >>

GetAnswerConsensus ==
    LET call == ConsensusProcessor_get_answer_consensus(processor)
    IN /\ processor' = call.self
       /\ returned' = [returned EXCEPT !.get_answer_consensus =
                          [called |-> TRUE, raised |-> call.raised,
                           rows |-> call.rows]]
       /\ UNCHANGED << dict_layout, considered, accepted, failed, conflicted,
                       outcome, shadow, pending, permuted, seen, positions,
                       ranges >>

Next == Consider \/ GetConsensus \/ GetAnswerConsensus

\* The processor of one task: annotations ingested, rows extracted.
Spec == Init /\ [][Next]_vars

\* ------------------------------------------- two processors, one batch
\* The first processor takes an annotation that keeps the batch consistent.
FeedFirst ==
    /\ considered < MaxAnnos
    /\ \E anno \in Annotations : \E slot \in Slots(processor, anno) :
          /\ BelowRedundancy(anno) \/ Consistent(Join(seen, Said(anno)))
          /\ \A e \in pending : e.anno # anno
          /\ ConsiderAnno(anno, slot)
          /\ pending' = pending \cup {[anno |-> anno, index |-> considered]}
    /\ UNCHANGED << shadow, permuted, positions, ranges >>

\* The second processor takes any annotation the first has and it has not.
FeedSecond ==
    /\ \E e \in pending : \E slot \in Slots(shadow, e.anno) :
          LET call == ConsensusProcessor_consider(shadow, << e.anno >>, << slot >>)
          IN /\ shadow' = call.self
             /\ dict_layout' = Placed(shadow, call.self, e.anno, slot)
             /\ pending' = pending \ {e}
             /\ permuted' = (permuted \/ \E f \in pending : f.index < e.index)
    /\ UNCHANGED << processor, considered, accepted, failed, conflicted, outcome,
                    returned, seen, positions, ranges >>

NextPerm == FeedFirst \/ FeedSecond

\* One consistent batch fed to two processors in two orders.
SpecPerm == Init /\ [][NextPerm]_vars

\* ------------------------------------------------ convert_to_ranges alone
Indices == (0 - 1)..(MaxIndex - 2)

InitRanges ==
    /\ \E iaa_config \in {EmptyConfig} :
          /\ processor = ConsensusProcessor_init(TaskUuid, iaa_config)
          /\ shadow = ConsensusProcessor_init(TaskUuid, iaa_config)
    /\ dict_layout = [at \in {} |-> 0]
    /\ considered = 0
    /\ accepted = {}
    /\ failed = FALSE
    /\ conflicted = FALSE
    /\ outcome = "init"
    /\ returned = NothingReturned
    /\ pending = {}
    /\ permuted = FALSE
    /\ seen = [chars |-> {}, articles |-> {}, namespaces |-> {}]
    /\ positions \in SUBSET Indices
    /\ ranges = NotConverted

ConvertToRanges ==
    /\ ~ranges.called
    /\ ranges' = [called |-> TRUE,
                  offsets |-> TopicData_convert_to_ranges(positions)]
    /\ UNCHANGED << processor, dict_layout, considered, accepted, failed,
                    conflicted, outcome, returned, shadow, pending, permuted,
                    seen, positions >>

NextRanges == ConvertToRanges

\* convert_to_ranges applied to every set of indices.
SpecRanges == InitRanges /\ [][NextRanges]_vars


\* ================================================================ claims
\* The positions a sequence of half-open ranges covers.
Expand(offsets) ==
    UNION { PyRange(offsets[i].start_pos, offsets[i].end_pos) :
              i \in 1..Len(offsets) }

\* C2: convert_to_ranges(S) returns non-empty half-open ranges, ascending by
\* start_pos, pairwise disjoint and never adjacent (each end_pos is strictly
\* below every later start_pos), whose positions are exactly S; the empty set
\* gives no range; converting the positions of the result gives it again.
C2_RangesAreTheMaximalRuns ==
    ranges.called =>
      LET r == ranges.offsets
      IN /\ \A i \in 1..Len(r) : r[i].start_pos < r[i].end_pos
         /\ \A i \in 1..Len(r), j \in 1..Len(r) :
               i < j => r[i].end_pos < r[j].start_pos
         /\ Expand(r) = positions
         /\ (positions = {} => r = << >>)
         /\ TopicData_convert_to_ranges(Expand(r)) = r

\* A set with a gap and a run of several positions was converted.
C2_Witness ==
    /\ ranges.called
    /\ Len(ranges.offsets) >= 2
    /\ \E i \in 1..Len(ranges.offsets) :
          ranges.offsets[i].end_pos - ranges.offsets[i].start_pos >= 2


Positions == 0..(MaxPos - 1)

\* The contributors whose accepted annotations on a topic cover a position.
Coverers(topic_name, p) ==
    { a.contributor_uuid :
        a \in { b \in accepted : /\ b.topic_name = topic_name
                                 /\ b.start_pos <= p
                                 /\ p < b.end_pos } }

\* sum_contribs() of a topic, of no topic when none was created under the name.
CounterOfTopic(topic_name) ==
    IF topic_name \in DOMAIN processor.topics
      THEN TopicData_sum_contribs(processor.topics[topic_name])
      ELSE CounterOf({})

\* C1: after accepted annotations, sum_contribs() of a topic maps each position
\* to the number of distinct contributors with an accepted annotation of the
\* topic whose [start_pos, end_pos) holds it, and holds no other position:
\* overlapping or repeated ranges of one contributor count once.
C1_SumCountsDistinctContributors ==
    ~failed =>
      \A t \in TopicNames :
        LET counter == CounterOfTopic(t)
        IN /\ DOMAIN counter = { p \in Positions : Coverers(t, p) # {} }
           /\ \A p \in DOMAIN counter :
                 counter[p] = Cardinality(Coverers(t, p))

\* One contributor's two distinct ranges on a topic overlap at a position,
\* which sum_contribs() counts once.
C1_Witness ==
    /\ ~failed
    /\ \E a \in accepted, b \in accepted, p \in Positions :
          /\ a # b
          /\ a.topic_name = b.topic_name
          /\ a.contributor_uuid = b.contributor_uuid
          /\ a.start_pos <= p /\ p < a.end_pos
          /\ b.start_pos <= p /\ p < b.end_pos
          /\ a.start_pos # b.start_pos
          /\ CounterOfTopic(a.topic_name)[p] = 1


Extractions == {"get_consensus", "get_answer_consensus"}

\* The rows of a topic among the rows returned, in their order.
RowsOfTopic(rows, topic_name) ==
    SelectSeq(rows, LAMBDA row : row.topic_name = topic_name)

\* C3: in the rows get_consensus() and get_answer_consensus() return, the rows
\* of each topic are numbered 1..N in ascending start_pos order, whatever case
\* numbers the annotations proposed.
C3_CasesNumberedInStartOrder ==
    \A op \in Extractions :
      (returned[op].called /\ returned[op].raised = NoException) =>
        \A t \in TopicNames :
          LET rows == RowsOfTopic(returned[op].rows, t)
          IN \A i \in 1..Len(rows) :
                /\ rows[i].case_number = i
                /\ i < Len(rows) => rows[i].start_pos < rows[i + 1].start_pos

\* get_consensus() returned two rows of one topic, and a contributor had
\* proposed case number 2 where the row numbered 1 starts.
C3_Witness ==
    /\ returned.get_consensus.called
    /\ \E t \in DOMAIN processor.topics :
          LET rows == RowsOfTopic(returned.get_consensus.rows, t)
          IN /\ Len(rows) >= 2
             /\ \E u \in DOMAIN processor.topics[t].contrib_dict :
                   LET proposed ==
                           processor.topics[t].contrib_dict[u].case_number_dict
                   IN /\ rows[1].start_pos \in DOMAIN proposed
                      /\ proposed[rows[1].start_pos] = 2

\* C5: consider() drops an annotation whose taskrun_count is below
\* minimum_redundancy: the call leaves the whole processor (char_at, article
\* identity, topics, contributors, flattened sets) as it was.
C5_DroppedAnnotationChangesNothing ==
    [][(considered' = considered + 1 /\ outcome' = "dropped")
          => processor' = processor]_vars

\* An annotation was dropped by a processor that had ingested another.
C5_Witness ==
    /\ outcome = "dropped"
    /\ accepted # {}
    /\ DOMAIN processor.article_data.char_dict # {}


\* pass_threshold of the processor's configuration.
Threshold == DictGet(processor.iaa_config, "pass_threshold", PASS_THRESHOLD)

\* The distinct contributors with an accepted annotation on a topic, and the
\* positions enough of them cover.
ContributorsOf(topic_name) ==
    { a.contributor_uuid : a \in { b \in accepted : b.topic_name = topic_name } }
PassingPositions(topic_name) ==
    { p \in Positions : Cardinality(Coverers(topic_name, p)) >= Threshold }

RangesOf(rows) ==
    [i \in 1..Len(rows) |-> << rows[i].start_pos, rows[i].end_pos >>]

C10_ExtractionIsReadOnly ==
    [][considered' = considered =>
          /\ processor' = processor
          /\ \A op \in Extractions :
                returned[op].called => returned'[op] = returned[op]]_vars

\* Both operations were called on a processor with passing positions, and
\* both returned rows.
C10_Witness ==
    /\ returned.get_consensus.called
    /\ returned.get_consensus.rows # << >>
    /\ returned.get_answer_consensus.called
    /\ returned.get_answer_consensus.rows # << >>


\* What an extraction call made since the last consider() handed back.
ReturnedRows(op) ==
    returned[op].called /\ returned[op].raised = NoException
        /\ returned[op].rows # << >>

\* The characters the accepted annotations recorded are the ones char_dict holds.
RecordedCharsKept ==
    \A pair \in seen.chars :
        /\ pair[1] \in DOMAIN processor.article_data.char_dict
        /\ processor.article_data.char_dict[pair[1]] = pair[2]

\* C7: once an accepted annotation has contradicted the recorded character at
\* an offset, consider() has raised, every recorded offset still has its
\* character, and neither get_consensus() nor get_answer_consensus() returns
\* rows.
C7_ConflictStopsOutput ==
    conflicted =>
        /\ failed
        /\ RecordedCharsKept
        /\ \A op \in Extractions : ~ReturnedRows(op)

\* C8: while no consider() call has raised, the accepted annotations of a
\* topic all carry the namespace the topic holds and stamps on its rows.
C8_OneNamespacePerTopic ==
    ~failed =>
        \A a \in accepted :
            /\ a.topic_name \in DOMAIN processor.topics
            /\ processor.topics[a.topic_name].namespace = a.namespace

\* C9: while no consider() call has raised, get_consensus() and
\* get_answer_consensus() find every character they ask for: neither raises
\* KeyError.
C9_ExtractionFindsEveryCharacter ==
    ~failed =>
        \A op \in Extractions :
            returned[op].called => returned[op].raised # "KeyError"


\* get_consensus() on each of the two processors.
FirstConsensus == ConsensusProcessor_get_consensus(processor)
SecondConsensus == ConsensusProcessor_get_consensus(shadow)

SameChars == processor.article_data.char_dict = shadow.article_data.char_dict

\* C4 as claimed: once both processors have the whole batch, their char_dict
\* are equal and get_consensus() returns the same list of rows on both.
C4_PermutationGivesIdenticalRows ==
    pending = {} =>
        /\ SameChars
        /\ FirstConsensus.raised = SecondConsensus.raised
        /\ FirstConsensus.rows = SecondConsensus.rows

\* C4: once both processors have the whole batch, their char_dict are equal,
\* get_consensus() ends the same way on both and returns the same rows for
\* each topic, in the same order within the topic; the order in which the
\* topics follow one another in the list is the one self.topics iterates in.
C4_PermutationGivesSameRowsPerTopic ==
    pending = {} =>
        /\ SameChars
        /\ FirstConsensus.raised = SecondConsensus.raised
        /\ \A t \in TopicNames :
              RowsOfTopic(FirstConsensus.rows, t)
                  = RowsOfTopic(SecondConsensus.rows, t)

\* Both processors have a batch of two annotations, the second took them in
\* the other order, and get_consensus() returns rows.
C4_Witness ==
    /\ pending = {}
    /\ permuted
    /\ considered = MaxAnnos
    /\ FirstConsensus.raised = NoException
    /\ FirstConsensus.rows # << >>

====
